---- MODULE Spec2Model ----
(***************************************************************************)
(* Model of app.py: a Streamlit script that scores a candidate profile    *)
(* with a trained pipeline and recommends a salary band by an ordered,    *)
(* first-match scan of band_rules.json.                                    *)
(*                                                                         *)
(* One script run is a straight line of steps: load_pipeline,              *)
(* load_band_rules, the input form, predict_proba, the band scan and the   *)
(* "Why this band?" snapshot.  st.stop() and an uncaught exception end the *)
(* run.  Reals are scaled to integers: probability in 1e-5 units, CGPA in  *)
(* tenths (the widget's step).                                             *)
(***************************************************************************)
EXTENDS Integers, Sequences, FiniteSets, TLC

VARIABLES
    file,           \* band_rules.json on disk
    model_present,  \* models/placement_pipeline.pkl exists
    cache,          \* st.cache_data entry of load_band_rules
    rules,          \* module global `rules` of the current run
    pc,             \* position of the current script run
    submitted,      \* form_submit_button result of the current run
    cgpa, iq, projects,   \* widget values of the current run
    proba,          \* result of predict_proba
    band_name,      \* loop result
    at,             \* index of the band the loop stopped on (Len+1 when exhausted)
    out,            \* elements written to the page in this run, in order
    snapshot,       \* dict written in the "Why this band?" expander
    last            \* inputs and result of the previous completed evaluation

vars == <<file, model_present, cache, rules, pc, submitted, cgpa, iq, projects,
          proba, band_name, at, out, snapshot, last>>

-----------------------------------------------------------------------------
(* Bounds of the model *)

MaxBands == 2

(* Widget bounds and defaults of the input form *)
IqMin == 50
IqMax == 200
IqDefault == 110
CgpaMin == 0
CgpaMax == 100
CgpaDefault == 72
ProjectsMin == 0
ProjectsMax == 50
ProjectsDefault == 2

(* predict_proba yields a probability in [0, 1]; 1.0 is ProbaOne units *)
ProbaOne == 100000
ProbaNear == ProbaOne \div 2 - 4

Sentinel == "Low"

None == "None"
NoValue == 0 - 1

ThresholdKeys == {"min_prob", "min_cgpa", "min_iq", "min_projects"}

BandNames == {"High", "Low"}

(* A band entry: the keys present in the JSON object and their values.    *)
(* A key that is absent carries a placeholder that is never read.          *)
Band(keys, name, min_cgpa) ==
    [keys         |-> keys,
     name         |-> IF "name" \in keys THEN name ELSE None,
     min_prob     |-> IF "min_prob" \in keys THEN ProbaNear ELSE NoValue,
     min_cgpa     |-> IF "min_cgpa" \in keys THEN min_cgpa ELSE NoValue,
     min_iq       |-> IF "min_iq" \in keys THEN IqDefault ELSE NoValue,
     min_projects |-> IF "min_projects" \in keys THEN ProjectsDefault ELSE NoValue]

(* Entries of the rule file: a name-only entry, an entry with all four    *)
(* thresholds, a tighter entry that omits min_iq and min_projects, and an  *)
(* entry with all four thresholds and no name.                             *)
BandSet ==
    {Band({"name"}, n, NoValue) : n \in BandNames}
    \cup {Band(ThresholdKeys \cup {"name"}, n, CgpaDefault) : n \in BandNames}
    \cup {Band({"min_prob", "min_cgpa", "name"}, n, CgpaMax) : n \in BandNames}
    \cup {Band(ThresholdKeys, None, CgpaDefault)}

BandTables == UNION {[1..n -> BandSet] : n \in 0..MaxBands}

(* Contents of band_rules.json: absent, not JSON, a JSON array, or a JSON *)
(* object with or without the "bands" key.                                 *)
RuleFiles ==
    {[kind |-> k, has_bands |-> FALSE, bands |-> <<>>] :
        k \in {"missing", "invalid", "array", "object"}}
    \cup {[kind |-> "object", has_bands |-> TRUE, bands |-> t] : t \in BandTables}

NoRules == [kind |-> "none", has_bands |-> FALSE, bands |-> <<>>]

(* Values the widgets and the scorer deliver *)
IqValues == {IqMin, IqDefault}
CgpaValues == {CgpaMin, CgpaDefault, CgpaMax}
ProjectsValues == {ProjectsMin, ProjectsDefault}
ProbaValues == {0, ProbaNear}

NoSnapshot == [probability |-> NoValue, CGPA |-> NoValue, IQ |-> NoValue,
               Projects_Completed |-> NoValue, applied_rule |-> None]
NoLast == [proba |-> NoValue, cgpa |-> NoValue, iq |-> NoValue,
           projects |-> NoValue, band_name |-> None, at |-> 0]

-----------------------------------------------------------------------------
(* Faulty variant of Get: an absent key is read as a threshold no candidate meets *)
GetNoDefault(band, key, default) ==
    IF key \in band.keys THEN band[key] ELSE ProbaOne + 1

(* dict.get(key, default) on a band entry *)
Get(band, key, default) ==
    IF key \in band.keys THEN band[key] ELSE default

(* rules.get("bands", []) *)
GetBands(r) == IF r.has_bands THEN r.bands ELSE <<>>

(* Faulty variant of Matches: strict comparisons *)
MatchesStrict(band, p, c, q, n) ==
    /\ p > Get(band, "min_prob", 0)
    /\ c > Get(band, "min_cgpa", 0)
    /\ q > Get(band, "min_iq", 0)
    /\ n > Get(band, "min_projects", 0)

(* Faulty variant of Matches: the CGPA comparison is reversed *)
MatchesFlipped(band, p, c, q, n) ==
    /\ p >= Get(band, "min_prob", 0)
    /\ c <= Get(band, "min_cgpa", 0)
    /\ q >= Get(band, "min_iq", 0)
    /\ n >= Get(band, "min_projects", 0)

(* Faulty variant of Matches: `or` in place of `and` *)
MatchesAny(band, p, c, q, n) ==
    \/ p >= Get(band, "min_prob", 0)
    \/ c >= Get(band, "min_cgpa", 0)
    \/ q >= Get(band, "min_iq", 0)
    \/ n >= Get(band, "min_projects", 0)

(* The four comparisons and their conjunction, lines 100-105 *)
Matches(band, p, c, q, n) ==
    LET ok_prob == p >= Get(band, "min_prob", 0)
        ok_cgpa == c >= Get(band, "min_cgpa", 0)
        ok_iq   == q >= Get(band, "min_iq", 0)
        ok_proj == n >= Get(band, "min_projects", 0)
    IN  ok_prob /\ ok_cgpa /\ ok_iq /\ ok_proj

(* Faulty variant of Scan: no `break`, so a later matching band overwrites the name *)
RECURSIVE ScanNoBreak(_, _, _, _, _, _)
ScanNoBreak(bands, k, p, c, q, n) ==
    IF k > Len(bands) THEN [outcome |-> "exhausted", at |-> k, name |-> Sentinel]
    ELSE LET rest == ScanNoBreak(bands, k + 1, p, c, q, n)
         IN  IF ~Matches(bands[k], p, c, q, n) THEN rest
             ELSE IF "name" \notin bands[k].keys
                  THEN [outcome |-> "KeyError", at |-> k, name |-> Sentinel]
             ELSE IF rest.outcome = "exhausted"
                  THEN [outcome |-> "break", at |-> k, name |-> bands[k].name]
             ELSE rest

(* Faulty variant of Scan: the name is assigned before the test, so an exhausted  *)
(* loop leaves the last band's name in place of the sentinel               *)
RECURSIVE ScanAssignsFirst(_, _, _, _, _, _)
ScanAssignsFirst(bands, k, p, c, q, n) ==
    IF k > Len(bands)
    THEN [outcome |-> "exhausted", at |-> k,
          name |-> IF k > 1 /\ "name" \in bands[k - 1].keys
                   THEN bands[k - 1].name ELSE Sentinel]
    ELSE IF Matches(bands[k], p, c, q, n)
         THEN IF "name" \in bands[k].keys
              THEN [outcome |-> "break", at |-> k, name |-> bands[k].name]
              ELSE [outcome |-> "KeyError", at |-> k, name |-> Sentinel]
         ELSE ScanAssignsFirst(bands, k + 1, p, c, q, n)

(* The for loop from position k: stops on the first band that matches;    *)
(* band["name"] raises KeyError when the entry has no name.                *)
RECURSIVE Scan(_, _, _, _, _, _)
Scan(bands, k, p, c, q, n) ==
    IF k > Len(bands) THEN [outcome |-> "exhausted", at |-> k, name |-> Sentinel]
    ELSE IF Matches(bands[k], p, c, q, n)
         THEN IF "name" \in bands[k].keys
              THEN [outcome |-> "break", at |-> k, name |-> bands[k].name]
              ELSE [outcome |-> "KeyError", at |-> k, name |-> Sentinel]
         ELSE Scan(bands, k + 1, p, c, q, n)

(* round(float(proba), 4) on a probability in 1e-5 units, half to even *)
Round4(p) ==
    LET lo == (p \div 10) * 10
        r  == p % 10
    IN  IF r < 5 THEN lo
        ELSE IF r > 5 THEN lo + 10
        ELSE IF (lo \div 10) % 2 = 0 THEN lo ELSE lo + 10

Error(msg) == [kind |-> "error", text |-> msg]
Write(what) == [kind |-> what, text |-> ""]

-----------------------------------------------------------------------------
Init ==
    /\ file \in RuleFiles
    /\ model_present \in BOOLEAN
    /\ cache = NoRules
    /\ rules = NoRules
    /\ pc = "idle"
    /\ submitted = FALSE
    /\ cgpa = NoValue
    /\ iq = NoValue
    /\ projects = NoValue
    /\ proba = NoValue
    /\ band_name = None
    /\ at = 0
    /\ out = <<>>
    /\ snapshot = NoSnapshot
    /\ last = NoLast

Ended == pc \in {"idle", "stopped", "raised", "rendered", "finished"}

(* Inputs and result of the run that just completed *)
Evaluation ==
    [proba |-> proba, cgpa |-> cgpa, iq |-> iq, projects |-> projects,
     band_name |-> band_name, at |-> at]

(* A rerun of the script: the page is cleared and the script starts at    *)
(* the top.  `last` keeps a completed evaluation of an earlier run.        *)
Rerun ==
    /\ Ended
    /\ pc' = "load_pipeline"
    /\ submitted' = FALSE
    /\ cgpa' = NoValue
    /\ iq' = NoValue
    /\ projects' = NoValue
    /\ rules' = NoRules
    /\ proba' = NoValue
    /\ band_name' = None
    /\ at' = 0
    /\ out' = <<>>
    /\ snapshot' = NoSnapshot
    /\ last' \in IF pc = "finished" THEN {last, Evaluation} ELSE {last}
    /\ UNCHANGED <<file, model_present, cache>>

(* load_pipeline, lines 10-16 and 27 *)
LoadPipeline ==
    /\ pc = "load_pipeline"
    /\ IF model_present
       THEN /\ pc' = "load_band_rules"
            /\ out' = out
       ELSE /\ out' = Append(out, Error("Model file not found"))
            /\ pc' = "stopped"
    /\ UNCHANGED <<file, model_present, cache, rules, submitted, cgpa, iq, projects,
                   proba, band_name, at, snapshot, last>>

(* load_band_rules, lines 18-25 and 28 *)
LoadBandRules ==
    /\ pc = "load_band_rules"
    /\ IF cache # NoRules
       THEN /\ rules' = cache
            /\ pc' = "form"
            /\ UNCHANGED <<cache, out>>
       ELSE IF file.kind = "missing"
       THEN /\ out' = Append(out, Error("band_rules.json not found."))
            /\ pc' = "stopped"
            /\ UNCHANGED <<cache, rules>>
       ELSE IF file.kind = "invalid"
       THEN /\ out' = Append(out, Error("JSONDecodeError"))
            /\ pc' = "raised"
            /\ UNCHANGED <<cache, rules>>
       ELSE /\ cache' = file
            /\ rules' = file
            /\ pc' = "form"
            /\ out' = out
    /\ UNCHANGED <<file, model_present, submitted, cgpa, iq, projects,
                   proba, band_name, at, snapshot, last>>

(* The form and `if submitted:`, lines 41-74 *)
Form ==
    /\ pc = "form"
    /\ iq' \in IqValues
    /\ cgpa' \in CgpaValues
    /\ projects' \in ProjectsValues
    /\ submitted' \in BOOLEAN
    /\ pc' = IF submitted' THEN "predict" ELSE "rendered"
    /\ UNCHANGED <<file, model_present, cache, rules,
                   proba, band_name, at, out, snapshot, last>>

(* Faulty variant of Predict: the except branch reports the error and goes on *)
PredictNoStop ==
    /\ pc = "predict"
    /\ \/ /\ out' = Append(out, Error("Prediction failed"))
          /\ pc' = "resolve"
          /\ proba' = proba
       \/ /\ proba' \in ProbaValues
          /\ out' = Append(out, Write("metric"))
          /\ pc' = "resolve"
    /\ UNCHANGED <<file, model_present, cache, rules, submitted, cgpa, iq, projects,
                   band_name, at, snapshot, last>>

(* predict_proba in try/except and the metric, lines 88-95 *)
Predict ==
    /\ pc = "predict"
    /\ \/ /\ out' = Append(out, Error("Prediction failed"))
          /\ pc' = "stopped"
          /\ proba' = proba
       \/ /\ proba' \in ProbaValues
          /\ out' = Append(out, Write("metric"))
          /\ pc' = "resolve"
    /\ UNCHANGED <<file, model_present, cache, rules, submitted, cgpa, iq, projects,
                   band_name, at, snapshot, last>>

(* Faulty variant of Resolve: the matched band is removed from the shared table *)
ResolvePops ==
    /\ pc = "resolve"
    /\ rules.kind = "object"
    /\ LET r == Scan(GetBands(rules), 1, proba, cgpa, iq, projects)
           kept == SelectSeq(GetBands(rules), LAMBDA b : b # GetBands(rules)[r.at])
       IN  /\ at' = r.at
           /\ band_name' = r.name
           /\ r.outcome # "KeyError"
           /\ out' = Append(out, [kind |-> "success", text |-> r.name])
           /\ pc' = "explain"
           /\ cache' = IF r.outcome = "break"
                       THEN [cache EXCEPT !.bands = kept] ELSE cache
    /\ UNCHANGED <<file, model_present, rules, submitted, cgpa, iq, projects,
                   proba, snapshot, last>>

(* The band scan and st.success, lines 98-109 *)
Resolve ==
    /\ pc = "resolve"
    /\ IF rules.kind # "object"
       THEN /\ band_name' = Sentinel
            /\ at' = at
            /\ out' = Append(out, Error("AttributeError"))
            /\ pc' = "raised"
       ELSE LET r == Scan(GetBands(rules), 1, proba, cgpa, iq, projects)
            IN  /\ at' = r.at
                /\ band_name' = r.name
                /\ IF r.outcome = "KeyError"
                   THEN /\ out' = Append(out, Error("KeyError"))
                        /\ pc' = "raised"
                   ELSE /\ out' = Append(out, [kind |-> "success", text |-> r.name])
                        /\ pc' = "explain"
    /\ UNCHANGED <<file, model_present, cache, rules, submitted, cgpa, iq, projects,
                   proba, snapshot, last>>

(* Faulty variant of Explain: the snapshot names the sentinel, not the loop result *)
ExplainSentinel ==
    /\ pc = "explain"
    /\ snapshot' = [probability |-> Round4(proba), CGPA |-> cgpa, IQ |-> iq,
                    Projects_Completed |-> projects, applied_rule |-> Sentinel]
    /\ out' = Append(out, Write("snapshot"))
    /\ pc' = "finished"
    /\ UNCHANGED <<file, model_present, cache, rules, submitted, cgpa, iq, projects,
                   proba, band_name, at, last>>

(* The "Why this band?" expander, lines 111-118 *)
Explain ==
    /\ pc = "explain"
    /\ snapshot' = [probability |-> Round4(proba), CGPA |-> cgpa, IQ |-> iq,
                    Projects_Completed |-> projects, applied_rule |-> band_name]
    /\ out' = Append(out, Write("snapshot"))
    /\ pc' = "finished"
    /\ UNCHANGED <<file, model_present, cache, rules, submitted, cgpa, iq, projects,
                   proba, band_name, at, last>>

Next ==
    \/ Rerun
    \/ LoadPipeline
    \/ LoadBandRules
    \/ Form
    \/ Predict
    \/ Resolve
    \/ Explain

Spec == Init /\ [][Next]_vars

-----------------------------------------------------------------------------
(* Vocabulary of the properties *)

Bands == GetBands(rules)

(* The run has a band result: the loop ended and st.success was written *)
Completed == pc \in {"explain", "finished"}

(* The loop ran: it ended with a result or with KeyError on band["name"] *)
ScanRan == Completed \/ (pc = "raised" /\ at > 0)

(* The candidate value compared against each threshold key *)
Candidate(key) ==
    CASE key = "min_prob"     -> proba
      [] key = "min_cgpa"     -> cgpa
      [] key = "min_iq"       -> iq
      [] key = "min_projects" -> projects

(* A band's minimum for a key, 0 when the entry omits it *)
Minimum(band, key) == IF key \in band.keys THEN band[key] ELSE 0

(* The four conditions of a band, for the candidate (p, c, q, n) *)
Qualifies(band, p, c, q, n) ==
    /\ p >= Minimum(band, "min_prob")
    /\ c >= Minimum(band, "min_cgpa")
    /\ q >= Minimum(band, "min_iq")
    /\ n >= Minimum(band, "min_projects")

QualifiesNow(k) == Qualifies(Bands[k], proba, cgpa, iq, projects)

(* The rule file is not a table of the declared format *)
Malformed(f) ==
    \/ f.kind # "object"
    \/ ~f.has_bands
    \/ \E k \in 1..Len(f.bands) : "name" \notin f.bands[k].keys

PredictionFailed == Error("Prediction failed")

(* The candidate of this run is >= the remembered one in all four values *)
Dominates ==
    /\ proba >= last.proba
    /\ cgpa >= last.cgpa
    /\ iq >= last.iq
    /\ projects >= last.projects

(* The candidate of this run equals the remembered one *)
SameInputs ==
    /\ proba = last.proba
    /\ cgpa = last.cgpa
    /\ iq = last.iq
    /\ projects = last.projects

-----------------------------------------------------------------------------
(* C1: when one or more bands satisfy all four conditions, the band name  *)
(* the scan returns is the name of the earliest such band in the table's   *)
(* order; no later band's name is returned.                                *)
C1_FirstMatchWins ==
    Completed =>
        \A k \in 1..Len(Bands) :
            QualifiesNow(k) =>
                /\ at \in 1..k
                /\ QualifiesNow(at)
                /\ \A j \in 1..(at - 1) : ~QualifiesNow(j)
                /\ band_name = Bands[at].name

(* Two bands qualify, the later one the tighter, and the first is named *)
C1_Witness ==
    /\ pc = "finished"
    /\ Len(Bands) = 2
    /\ QualifiesNow(1) /\ QualifiesNow(2)
    /\ Bands[1].keys = {"name"}
    /\ Bands[2].keys = ThresholdKeys \cup {"name"}
    /\ Bands[1].name # Bands[2].name
    /\ band_name = Bands[1].name

(* C2: for a missing, unreadable or malformed rule table the band loop    *)
(* never runs over the table and no band, the sentinel included, is        *)
(* reported.                                                               *)
C2_NoBandForMalformedTable ==
    Malformed(file) =>
        /\ ~ScanRan
        /\ \A i \in 1..Len(out) : out[i].kind # "success"

(* C3: a failed scorer call reports one "Prediction failed" error and     *)
(* stops the run; the scan, the band output and the snapshot happen only   *)
(* after a probability was produced.                                       *)
C3_ScoringFailureHalts ==
    /\ \A i \in 1..Len(out) :
          out[i] = PredictionFailed =>
              /\ i = Len(out)
              /\ pc = "stopped"
              /\ proba = NoValue
              /\ band_name = None
              /\ at = 0
              /\ snapshot = NoSnapshot
    /\ \A i \in 1..Len(out) :
          out[i].kind \in {"success", "snapshot"} =>
              /\ proba \in 0..ProbaOne
              /\ \E j \in 1..(i - 1) : out[j].kind = "metric"
    /\ (pc \in {"resolve", "explain", "finished"} \/ at > 0
            \/ band_name # None \/ snapshot # NoSnapshot)
          => proba \in 0..ProbaOne

C3_Witness ==
    /\ pc = "stopped"
    /\ Len(out) = 1
    /\ out[1] = PredictionFailed
    /\ Len(Bands) > 0

(* C4: a candidate whose four values equal a band's four thresholds       *)
(* satisfies the band's conditions, and the band is returned when no       *)
(* earlier band matches.                                                   *)
C4_InclusiveThresholds ==
    ScanRan =>
        \A k \in 1..Len(Bands) :
            (/\ ThresholdKeys \subseteq Bands[k].keys
             /\ \A key \in ThresholdKeys : Candidate(key) = Bands[k][key])
            => /\ Matches(Bands[k], proba, cgpa, iq, projects)
               /\ at \in 1..k
               /\ (\A j \in 1..(k - 1) : ~QualifiesNow(j)) => at = k
               /\ (Completed /\ at = k) => band_name = Bands[k].name

C4_Witness ==
    /\ pc = "finished"
    /\ Len(Bands) = 2
    /\ ~QualifiesNow(1)
    /\ ThresholdKeys \subseteq Bands[2].keys
    /\ \A key \in ThresholdKeys : Candidate(key) = Bands[2][key]
    /\ at = 2
    /\ band_name = Bands[2].name
    /\ band_name # Sentinel

(* C5: when no band satisfies all four conditions (the empty table        *)
(* included) the returned name is the sentinel "Low"; otherwise the scan   *)
(* stops on the first matching band.                                       *)
C5_SentinelDefault ==
    /\ (Completed /\ \A k \in 1..Len(Bands) : ~QualifiesNow(k)) =>
          /\ band_name = Sentinel
          /\ at = Len(Bands) + 1
    /\ (ScanRan /\ at <= Len(Bands)) =>
          /\ QualifiesNow(at)
          /\ \A j \in 1..(at - 1) : ~QualifiesNow(j)
    /\ (Completed /\ at <= Len(Bands)) => band_name = Bands[at].name

C5_Witness ==
    /\ pc = "finished"
    /\ Len(Bands) >= 1
    /\ \A k \in 1..Len(Bands) : ~QualifiesNow(k) /\ Bands[k].name # Sentinel
    /\ band_name = Sentinel

(* C6: a threshold an entry omits never disqualifies a candidate of the   *)
(* form's domain: a band whose present thresholds are met stops the scan,  *)
(* so an entry with only a name matches every candidate.                   *)
C6_OmittedThresholds ==
    ScanRan =>
        /\ proba \in 0..ProbaOne
        /\ cgpa \in CgpaMin..CgpaMax
        /\ iq \in IqMin..IqMax
        /\ projects \in ProjectsMin..ProjectsMax
        /\ \A k \in 1..Len(Bands) :
              (\A key \in Bands[k].keys \cap ThresholdKeys :
                    Candidate(key) >= Bands[k][key])
              => /\ at \in 1..k
                 /\ (Completed /\ k = 1) => band_name = Bands[1].name

(* A name-only entry placed first shadows a band the candidate also meets, *)
(* at the lowest value of every field                                      *)
C6_Witness ==
    /\ pc = "finished"
    /\ Len(Bands) = 2
    /\ Bands[1].keys = {"name"}
    /\ Bands[2].keys # {"name"}
    /\ proba = 0 /\ cgpa = CgpaMin /\ iq = IqMin /\ projects = ProjectsMin
    /\ at = 1
    /\ band_name = Bands[1].name
    /\ band_name # Sentinel

(* C7: a candidate that is >= an earlier candidate in all four values     *)
(* matches every band the earlier one matched, and the band returned for   *)
(* it is never later in the table (the sentinel counted after the last).   *)
C7_Monotonicity ==
    (Completed /\ last # NoLast /\ Dominates) =>
        /\ \A k \in 1..Len(Bands) :
              Matches(Bands[k], last.proba, last.cgpa, last.iq, last.projects)
              => Matches(Bands[k], proba, cgpa, iq, projects)
        /\ at <= last.at

C7_Witness ==
    /\ pc = "finished"
    /\ last # NoLast
    /\ Dominates
    /\ cgpa > last.cgpa
    /\ at < last.at
    /\ last.at <= Len(Bands)

(* C8: with a table of the declared format the scan does not raise, and   *)
(* the one label it yields is the sentinel or the name of a band of the    *)
(* table whose four conditions the candidate satisfies.                    *)
C8_ResolutionNeverFails ==
    ~Malformed(file) =>
        /\ pc # "raised"
        /\ Completed =>
              \/ band_name = Sentinel
              \/ \E k \in 1..Len(Bands) :
                    /\ Bands[k].name = band_name
                    /\ QualifiesNow(k)
        /\ pc = "finished" =>
              Cardinality({i \in 1..Len(out) : out[i].kind = "success"}) = 1

C8_Witness ==
    /\ ~Malformed(file)
    /\ pc = "finished"
    /\ Len(Bands) = 2
    /\ at = 2
    /\ band_name = "High"

(* C9: an evaluation with the same probability, CGPA, IQ, projects and    *)
(* table as an earlier one yields the same band, and no evaluation         *)
(* changes the loaded table.                                               *)
C9_Deterministic ==
    /\ cache \in {NoRules, file}
    /\ rules \in {NoRules, cache}
    /\ (Completed /\ last # NoLast /\ SameInputs) =>
          /\ band_name = last.band_name
          /\ at = last.at

C9_Witness ==
    /\ pc = "finished"
    /\ last # NoLast
    /\ SameInputs
    /\ Len(Bands) = 2
    /\ at <= Len(Bands)

(* C10: in a completed evaluation the snapshot's applied_rule is the band *)
(* name that was reported, and its CGPA, IQ and Projects_Completed are the *)
(* values the scan compared.                                               *)
C10_SnapshotConsistent ==
    /\ pc = "finished" =>
          /\ snapshot.applied_rule = band_name
          /\ \E i \in 1..Len(out) :
                out[i] = [kind |-> "success", text |-> snapshot.applied_rule]
          /\ snapshot.CGPA = cgpa
          /\ snapshot.IQ = iq
          /\ snapshot.Projects_Completed = projects
          /\ (\A k \in 1..Len(Bands) : ~QualifiesNow(k))
                => snapshot.applied_rule = Sentinel
    /\ pc # "finished" => snapshot = NoSnapshot

C10_Witness ==
    /\ pc = "finished"
    /\ snapshot.applied_rule = "High"
    /\ snapshot.CGPA = CgpaDefault
    /\ snapshot.IQ = IqDefault
    /\ snapshot.Projects_Completed = ProjectsDefault

====
